---- MODULE Spec2Model ----
(***************************************************************************)
(* A model of the smssync express router (src/src/index.js): the secret    *)
(* middleware, the POST and GET route handlers and the completion          *)
(* callbacks they hand to the application's onReceive / onSend / onSent /  *)
(* onQueued / onDelivered handlers.                                        *)
(*                                                                         *)
(* JavaScript values are tagged records, so that strings, null, undefined, *)
(* objects and arrays can be told apart the way the code tells them apart. *)
(* A request path "/x" is written as its segment "x".                      *)
(***************************************************************************)
EXTENDS Integers, Sequences, FiniteSets, TLC

(***************************************************************************)
(* JavaScript values                                                       *)
(***************************************************************************)
Undefined == [t |-> "undefined"]
Null == [t |-> "null"]
Str(s) == [t |-> "string", s |-> s]
Bool(b) == [t |-> "boolean", b |-> b]
Obj(f) == [t |-> "object", f |-> f]
Arr(a) == [t |-> "array", a |-> a]

\* an object literal whose undefined-valued keys are left out
MkObj(rec) == Obj([k \in {x \in DOMAIN rec : rec[x] # Undefined} |-> rec[k]])

\* ToBoolean(v): the truthiness `&&`, `||`, `if` and _.compact test
Truthy(v) ==
  CASE v.t = "undefined" -> FALSE
    [] v.t = "null" -> FALSE
    [] v.t = "string" -> v.s # ""
    [] v.t = "boolean" -> v.b
    [] OTHER -> TRUE

\* a || b
Or(a, b) == IF Truthy(a) THEN a ELSE b

\* a === b, for the primitive values compared in this program
StrictEq(a, b) ==
  /\ a.t = b.t
  /\ a.t \in {"undefined", "null", "string", "boolean"}
  /\ a = b

\* o.k and _.get(o, k): undefined when o has no such property
Get(o, k) == IF o.t = "object" /\ k \in DOMAIN o.f THEN o.f[k] ELSE Undefined

\* [].concat(v): an array is spread, any other value (undefined and null
\* included) becomes the single element
Concat(v) == IF v.t = "array" THEN v.a ELSE <<v>>

\* new Error(message)
Error(m) == Obj([message |-> Str(m)])

(***************************************************************************)
(* Program constants                                                       *)
(***************************************************************************)
TASK_SEND == "send"
TASK_RESULT == "result"
TASK_SENT == "sent"

MESSAGE_FIELDS ==
  {"from", "message", "message_id", "sent_to", "device_id", "sent_timestamp"}

\* the defaults smssync() merges the caller's options over
DefaultOptions ==
  [endpoint |-> Str("smssync"), secret |-> Str("smssync"),
   reply |-> Bool(TRUE), error |-> Bool(TRUE)]

\* _.merge({}, defaults, optns): an undefined source value is skipped
MergeOptions(optns) ==
  [k \in DOMAIN DefaultOptions |->
     IF optns[k] # Undefined THEN optns[k] ELSE DefaultOptions[k]]

\* a guard that tests the type of the secret instead of its emptiness
ProtectedAnyString(options) == options.secret.t = "string"

\* options.secret && !_.isEmpty(options.secret)
Protected(options) ==
  Truthy(options.secret) /\ ~(options.secret.t = "string" /\ options.secret.s = "")

\* a registration order that puts the routes before the secret middleware
LayersRoutesFirst(i, options) ==
  <<[kind |-> "post", inst |-> i], [kind |-> "get", inst |-> i]>>
    \o (IF Protected(options) THEN <<[kind |-> "secret", inst |-> i]>> ELSE <<>>)
\* the layers one smssync(optns) call adds to the router, in order
Layers(i, options) ==
  (IF Protected(options) THEN <<[kind |-> "secret", inst |-> i]>> ELSE <<>>)
    \o <<[kind |-> "post", inst |-> i], [kind |-> "get", inst |-> i]>>

(***************************************************************************)
(* Bounded inputs                                                          *)
(***************************************************************************)
\* longest array an application handler completes with
MaxItems == 2

Reqs == {"r1", "r2"}

SecretOptions == {Undefined, Null, Str(""), Str("s3cret")}
Optns ==
  [endpoint : {Undefined}, secret : SecretOptions,
   reply : {Undefined, Bool(FALSE)}, error : {Undefined, Bool(FALSE)}]

Methods == {"GET", "POST"}
Paths == {"smssync", "other"}
QueryTasks == {Undefined, Str(TASK_SENT), Str(TASK_RESULT), Str(TASK_SEND)}
QuerySecrets == {Undefined, Str(""), Str("smssync"), Str("s3cret")}
Queries == {MkObj([task |-> t, secret |-> s]) : t \in QueryTasks, s \in QuerySecrets}

Union2(f, g) ==
  [k \in DOMAIN f \cup DOMAIN g |-> IF k \in DOMAIN f THEN f[k] ELSE g[k]]

FullMessage ==
  [from |-> Str("+1"), message |-> Str("hi"), message_id |-> Str("m1"),
   sent_to |-> Str("+2"), device_id |-> Str("d1"), sent_timestamp |-> Str("t1")]
MessageParts ==
  {<<>>, [from |-> Str("+1"), message |-> Str("hi")], FullMessage}
BodyExtras ==
  {<<>>,
   [secret |-> Str("smssync")],
   [secret |-> Str("s3cret"), hash |-> Str("h0")],
   [queued_messages |-> Arr(<<Str("u1")>>)],
   [message_result |-> Arr(<<Obj([uuid |-> Str("u1")])>>), secret |-> Str("s3cret")]}
Bodies == {Obj(Union2(m, e)) : m \in MessageParts, e \in BodyExtras}

Requests == [method : Methods, path : Paths, query : Queries, body : Bodies]

\* the inputs of the runs that follow two requests side by side
Rq(method, path, task, secret, body) ==
  [method |-> method, path |-> path,
   query |-> MkObj([task |-> task, secret |-> secret]), body |-> Obj(body)]
PairOptns ==
  {[endpoint |-> Undefined, secret |-> Undefined, reply |-> Undefined, error |-> Undefined]}
PairBodies ==
  {FullMessage,
   Union2(FullMessage, [secret |-> Str("smssync")]),
   Union2(FullMessage, [secret |-> Str("s3cret"), hash |-> Str("h0")]),
   [from |-> Str("+1"), message |-> Str("hi")],
   [from |-> Str("+1"), message |-> Str("hi"), secret |-> Str("smssync")]}
PairRequests ==
  {Rq("POST", "smssync", Undefined, Str("smssync"), b) : b \in PairBodies}
    \cup {Rq("POST", "smssync", Str(TASK_SEND), Undefined,
              Union2(FullMessage, [secret |-> Str("smssync")])),
          Rq("POST", "smssync", Str(TASK_SENT), Undefined,
              [queued_messages |-> Arr(<<Str("u1")>>)]),
          Rq("POST", "smssync", Str(TASK_RESULT), Undefined,
              [message_result |-> Arr(<<Obj([uuid |-> Str("u1")])>>)]),
          Rq("GET", "smssync", Undefined, Str("smssync"), <<>>),
          Rq("GET", "smssync", Str(TASK_RESULT), Str("smssync"), <<>>),
          Rq("GET", "other", Undefined, Str("smssync"), <<>>),
          Rq("GET", "smssync", Undefined, Undefined, <<>>)}

NoRequest == [method |-> "", path |-> "", query |-> Obj(<<>>), body |-> Obj(<<>>)]
NoCompletion == [error |-> Undefined, result |-> Undefined]

(***************************************************************************)
(* State                                                                   *)
(***************************************************************************)
VARIABLES
  instances,   \* the merged options of each smssync() call, in call order
  stack,       \* the layers of the module's router
  request,     \* request[r]: method, path, query and parsed body
  pc,          \* "idle", "routing", "waiting" (handler invoked) or "done"
  pos,         \* index of the next layer of the stack the request is offered to
  admitted,    \* TRUE once a secret middleware called next() for the request
  calls,       \* the handler invocations made for the request
  completed,   \* the (error, result) the handler completed with
  outcomes     \* what the router did with the request: responses sent,
               \* errors given to next(error), or passing the request on

vars == <<instances, stack, request, pc, pos, admitted, calls, completed, outcomes>>

\* the state after one smssync(optns) call, optns drawn from O
Constructed(O) ==
  /\ \E optns \in O :
       /\ instances = <<MergeOptions(optns)>>
       /\ stack = Layers(1, MergeOptions(optns))
  /\ request = [r \in Reqs |-> NoRequest]
  /\ pc = [r \in Reqs |-> "idle"]
  /\ pos = [r \in Reqs |-> 1]
  /\ admitted = [r \in Reqs |-> FALSE]
  /\ calls = [r \in Reqs |-> <<>>]
  /\ completed = [r \in Reqs |-> NoCompletion]
  /\ outcomes = [r \in Reqs |-> <<>>]

Init == Constructed(Optns)

(***************************************************************************)
(* The router                                                              *)
(***************************************************************************)
\* a router whose secret middleware is mounted on the endpoint's path
MatchesSecretOnEndpoint(layer, rq) ==
  CASE layer.kind = "secret" -> Str(rq.path) = instances[layer.inst].endpoint
    [] layer.kind = "post" ->
         rq.method = "POST" /\ Str(rq.path) = instances[layer.inst].endpoint
    [] layer.kind = "get" ->
         rq.method = "GET" /\ Str(rq.path) = instances[layer.inst].endpoint
\* whether the router offers the request to a layer
Matches(layer, rq) ==
  CASE layer.kind = "secret" -> TRUE
    [] layer.kind = "post" ->
         rq.method = "POST" /\ Str(rq.path) = instances[layer.inst].endpoint
    [] layer.kind = "get" ->
         rq.method = "GET" /\ Str(rq.path) = instances[layer.inst].endpoint

\* the first layer at or after pos[r] that matches the request, 0 if none
NextLayer(r) ==
  LET S == {i \in pos[r]..Len(stack) : Matches(stack[i], request[r])}
  IN IF S = {} THEN 0 ELSE CHOOSE i \in S : \A j \in S : i <= j

\* a request reaches the router
Arrive(r, rq) ==
  /\ pc[r] = "idle"
  /\ request' = [request EXCEPT ![r] = rq]
  /\ pc' = [pc EXCEPT ![r] = "routing"]
  /\ pos' = [pos EXCEPT ![r] = 1]
  /\ admitted' = [admitted EXCEPT ![r] = FALSE]
  /\ calls' = [calls EXCEPT ![r] = <<>>]
  /\ completed' = [completed EXCEPT ![r] = NoCompletion]
  /\ outcomes' = [outcomes EXCEPT ![r] = <<>>]
  /\ UNCHANGED <<instances, stack>>

\* response.created(reply): the same body under another status
Created(reply) == [kind |-> "response", status |-> 201, body |-> reply]

\* response.ok(reply)
Ok(reply) == [kind |-> "response", status |-> 200, body |-> reply]
\* next(error)
NextError(error) == [kind |-> "error", error |-> error]
\* no layer is left: the request goes on to the hosting application
PassedOn == [kind |-> "passed"]

\* an envelope that always carries the branch's default message
ErrorReplyDefaultOnly(error, default) ==
  Obj([payload |-> Obj([success |-> Bool(FALSE), error |-> Str(default)])])

\* the error envelope every failure branch builds
ErrorReply(error, default) ==
  Obj([payload |->
        Obj([success |-> Bool(FALSE),
             error |-> Or(Get(error, "message"), Str(default))])])

\* a failure branch that hands every error to next(error)
FailAlwaysNext(options, error, default) == NextError(error)

\* a failure branch that renders every error
FailAlwaysRender(options, error, default) == Ok(ErrorReply(error, default))

\* what a failure branch does with an error: next(error) or response.ok
Fail(options, error, default) ==
  IF ~Truthy(options.error)
    THEN NextError(error)
    ELSE Ok(ErrorReply(error, default))

(***************************************************************************)
(* The secret middleware                                                   *)
(***************************************************************************)
\* a lookup that prefers the body's secret
ProvidedSecretBodyFirst(rq) == Or(Get(rq.body, "secret"), Get(rq.query, "secret"))

\* obtain secret from query or body
ProvidedSecret(rq) == Or(Get(rq.query, "secret"), Get(rq.body, "secret"))

\* a check that takes any secret the request gives
isValidSecretAnyGiven(options, secret) == Truthy(secret)
isValidSecret(options, secret) == StrictEq(options.secret, secret)

\* an exemption that forgets task=result
isAllowedRequestSentOnly(rq) ==
  rq.method = "POST" /\ StrictEq(Get(rq.query, "task"), Str(TASK_SENT))

\* an exemption that forgets the method
isAllowedRequestAnyMethod(rq) ==
  \/ StrictEq(Get(rq.query, "task"), Str(TASK_SENT))
  \/ StrictEq(Get(rq.query, "task"), Str(TASK_RESULT))

isAllowedRequest(rq) ==
  /\ rq.method = "POST"
  /\ \/ StrictEq(Get(rq.query, "task"), Str(TASK_SENT))
     \/ StrictEq(Get(rq.query, "task"), Str(TASK_RESULT))

\* a middleware that keeps the secret of the request it admits in the options
SecretMiddlewareKeepsSecret(r) ==
  /\ pc[r] = "routing"
  /\ NextLayer(r) # 0
  /\ stack[NextLayer(r)].kind = "secret"
  /\ LET i == NextLayer(r)
         options == instances[stack[i].inst]
         rq == request[r]
     IN IF isValidSecret(options, ProvidedSecret(rq)) \/ isAllowedRequest(rq)
          THEN /\ pos' = [pos EXCEPT ![r] = i + 1]
               /\ admitted' = [admitted EXCEPT ![r] = TRUE]
               /\ instances' = [instances EXCEPT
                                  ![stack[i].inst].secret = ProvidedSecret(rq)]
               /\ UNCHANGED <<pc, outcomes>>
          ELSE /\ outcomes' = [outcomes EXCEPT ![r] =
                    Append(@, Fail(options, Error("Secret Key Mismatch"),
                                   "Fail to process delivery reports"))]
               /\ pc' = [pc EXCEPT ![r] = "done"]
               /\ pos' = [pos EXCEPT ![r] = i]
               /\ UNCHANGED <<admitted, instances>>
  /\ UNCHANGED <<stack, request, calls, completed>>
\* a middleware whose rejection is followed by next()
SecretMiddlewareFallsThrough(r) ==
  /\ pc[r] = "routing"
  /\ NextLayer(r) # 0
  /\ stack[NextLayer(r)].kind = "secret"
  /\ LET i == NextLayer(r)
         options == instances[stack[i].inst]
         rq == request[r]
     IN IF isValidSecret(options, ProvidedSecret(rq)) \/ isAllowedRequest(rq)
          THEN /\ pos' = [pos EXCEPT ![r] = i + 1]
               /\ admitted' = [admitted EXCEPT ![r] = TRUE]
               /\ UNCHANGED <<pc, outcomes>>
          ELSE /\ outcomes' = [outcomes EXCEPT ![r] =
                    Append(@, Fail(options, Error("Secret Key Mismatch"),
                                   "Fail to process delivery reports"))]
               /\ pos' = [pos EXCEPT ![r] = i + 1]
               /\ UNCHANGED <<pc, admitted>>
  /\ UNCHANGED <<instances, stack, request, calls, completed>>
SecretMiddleware(r) ==
  /\ pc[r] = "routing"
  /\ NextLayer(r) # 0
  /\ stack[NextLayer(r)].kind = "secret"
  /\ LET i == NextLayer(r)
         options == instances[stack[i].inst]
         rq == request[r]
     IN IF isValidSecret(options, ProvidedSecret(rq)) \/ isAllowedRequest(rq)
          THEN /\ pos' = [pos EXCEPT ![r] = i + 1]
               /\ admitted' = [admitted EXCEPT ![r] = TRUE]
               /\ UNCHANGED <<pc, outcomes>>
          ELSE /\ outcomes' = [outcomes EXCEPT ![r] =
                    Append(@, Fail(options, Error("Secret Key Mismatch"),
                                   "Fail to process delivery reports"))]
               /\ pc' = [pc EXCEPT ![r] = "done"]
               /\ pos' = [pos EXCEPT ![r] = i]
               /\ UNCHANGED admitted
  /\ UNCHANGED <<instances, stack, request, calls, completed>>

\* no layer of the router takes the request
PassOn(r) ==
  /\ pc[r] = "routing"
  /\ NextLayer(r) = 0
  /\ outcomes' = [outcomes EXCEPT ![r] = Append(@, PassedOn)]
  /\ pc' = [pc EXCEPT ![r] = "done"]
  /\ UNCHANGED <<instances, stack, request, pos, admitted, calls, completed>>

(***************************************************************************)
(* POST /<endpoint>                                                        *)
(***************************************************************************)
\* _.pick(body, fields)
Pick(body, fields) == Obj([k \in DOMAIN body.f \cap fields |-> body.f[k]])

\* a digest salted with the number of requests being handled
HashSalted(v) ==
  [t |-> "digest", of |-> <<v, Cardinality({q \in Reqs : pc[q] = "waiting"})>>]
\* object-hash: the digest of a value, taken to be collision free
Hash(v) == [t |-> "digest", of |-> v]

\* a normalisation that forgets the projection
NormalizeWholeBody(body) ==
  Obj(Union2([hash |-> Hash(Pick(body, MESSAGE_FIELDS))], body.f))

\* a normalisation that hashes the body before projecting it
NormalizeHashFirst(body) ==
  Obj(Union2([hash |-> Hash(body)], Pick(body, MESSAGE_FIELDS).f))

\* body = _.pick(body, MESSAGE_FIELDS); body = _.merge({}, body, {hash: hash(body)})
Normalize(body) ==
  LET picked == Pick(body, MESSAGE_FIELDS)
  IN Obj(Union2([hash |-> Hash(picked)], picked.f))

\* options.onX(args, callback)
Invoke(handler, inst, args) == [handler |-> handler, inst |-> inst, args |-> args]

\* the handler invocation the POST route makes
PostCall(inst, rq) ==
  LET task == Get(rq.query, "task")
  IN IF Truthy(task) /\ StrictEq(task, Str(TASK_SENT))
       THEN Invoke("onSent", inst, <<Get(rq.body, "queued_messages")>>)
     ELSE IF Truthy(task) /\ StrictEq(task, Str(TASK_RESULT))
       THEN Invoke("onDelivered", inst, <<Get(rq.body, "message_result")>>)
     ELSE Invoke("onReceive", inst, <<Normalize(rq.body)>>)

\* a route that answers as soon as it has invoked the handler
PostRouteAnswersEarly(r) ==
  /\ pc[r] = "routing"
  /\ NextLayer(r) # 0
  /\ stack[NextLayer(r)].kind = "post"
  /\ LET i == NextLayer(r)
     IN /\ calls' = [calls EXCEPT ![r] = Append(@, PostCall(stack[i].inst, request[r]))]
        /\ pos' = [pos EXCEPT ![r] = i]
  /\ outcomes' = [outcomes EXCEPT ![r] =
       Append(@, Ok(Obj([payload |-> Obj([success |-> Bool(TRUE), error |-> Null])])))]
  /\ pc' = [pc EXCEPT ![r] = "waiting"]
  /\ UNCHANGED <<instances, stack, request, admitted, completed>>
PostRoute(r) ==
  /\ pc[r] = "routing"
  /\ NextLayer(r) # 0
  /\ stack[NextLayer(r)].kind = "post"
  /\ LET i == NextLayer(r)
     IN /\ calls' = [calls EXCEPT ![r] = Append(@, PostCall(stack[i].inst, request[r]))]
        /\ pos' = [pos EXCEPT ![r] = i]
  /\ pc' = [pc EXCEPT ![r] = "waiting"]
  /\ UNCHANGED <<instances, stack, request, admitted, completed, outcomes>>

(***************************************************************************)
(* GET /<endpoint>                                                         *)
(***************************************************************************)
\* a classification that takes any task for the result task
GetCallAnyTask(inst, rq) ==
  IF Truthy(Get(rq.query, "task"))
    THEN Invoke("onQueued", inst, <<>>)
    ELSE Invoke("onSend", inst, <<>>)

GetCall(inst, rq) ==
  LET task == Get(rq.query, "task")
  IN IF Truthy(task) /\ StrictEq(task, Str(TASK_RESULT))
       THEN Invoke("onQueued", inst, <<>>)
       ELSE Invoke("onSend", inst, <<>>)

GetRoute(r) ==
  /\ pc[r] = "routing"
  /\ NextLayer(r) # 0
  /\ stack[NextLayer(r)].kind = "get"
  /\ LET i == NextLayer(r)
     IN /\ calls' = [calls EXCEPT ![r] = Append(@, GetCall(stack[i].inst, request[r]))]
        /\ pos' = [pos EXCEPT ![r] = i]
  /\ pc' = [pc EXCEPT ![r] = "waiting"]
  /\ UNCHANGED <<instances, stack, request, admitted, completed, outcomes>>

(***************************************************************************)
(* Completion callbacks                                                    *)
(***************************************************************************)
\* what the application's handlers complete with
ReplyTo == Obj([to |-> Str("+1"), uuid |-> Str("m1"), message |-> Str("hi")])
EmptyTo == Obj([to |-> Str(""), message |-> Str("hi")])
Items == {ReplyTo, EmptyTo, Str("u1")}
Arrays == UNION {[1..n -> Items] : n \in 0..MaxItems}
Results == {Undefined, Null} \cup Items \cup {Arr(a) : a \in Arrays}
Completions ==
  {[error |-> Null, result |-> v] : v \in Results}
    \cup {[error |-> e, result |-> Undefined] :
            e \in {Undefined, Error("boom"), Error(""), Str("failed")}}
    \cup {[error |-> Error("boom"), result |-> ReplyTo]}

\* the handler invocation whose completion the request waits for
Pending(r) == calls[r][Len(calls[r])]

\* a completion after which the handler is invoked again when it failed
FinishRetry(r, c, outcome) ==
  /\ completed' = [completed EXCEPT ![r] = c]
  /\ IF c.error.t = "object" /\ Len(calls[r]) < 2
       THEN /\ calls' = [calls EXCEPT ![r] = Append(@, Pending(r))]
            /\ UNCHANGED <<pc, outcomes>>
       ELSE /\ outcomes' = [outcomes EXCEPT ![r] = Append(@, outcome)]
            /\ pc' = [pc EXCEPT ![r] = "done"]
            /\ UNCHANGED calls
  /\ UNCHANGED <<instances, stack, request, pos, admitted>>

\* a completion whose callback is shared: it answers every waiting request
FinishAnswersAll(r, c, outcome) ==
  /\ completed' = [q \in Reqs |-> IF pc[q] = "waiting" THEN c ELSE completed[q]]
  /\ outcomes' = [q \in Reqs |->
                    IF pc[q] = "waiting" THEN Append(outcomes[q], outcome)
                    ELSE outcomes[q]]
  /\ pc' = [q \in Reqs |-> IF pc[q] = "waiting" THEN "done" ELSE pc[q]]
  /\ UNCHANGED <<instances, stack, request, pos, admitted, calls>>
\* a completion whose callback returns without answering when it is given
\* an error
FinishDropsFailure(r, c, outcome) ==
  /\ completed' = [completed EXCEPT ![r] = c]
  /\ IF Truthy(c.error)
       THEN /\ pc' = [pc EXCEPT ![r] = "dropped"]
            /\ UNCHANGED outcomes
       ELSE /\ outcomes' = [outcomes EXCEPT ![r] = Append(@, outcome)]
            /\ pc' = [pc EXCEPT ![r] = "done"]
  /\ UNCHANGED <<instances, stack, request, pos, admitted, calls>>
\* the handler calls its callback with c = (error, result); the callback
\* produces the request's outcome and nothing else happens for the request
Finish(r, c, outcome) ==
  /\ completed' = [completed EXCEPT ![r] = c]
  /\ outcomes' = [outcomes EXCEPT ![r] = Append(@, outcome)]
  /\ pc' = [pc EXCEPT ![r] = "done"]
  /\ UNCHANGED <<instances, stack, request, pos, admitted, calls>>

SuccessReply == Obj([payload |-> Obj([success |-> Bool(TRUE), error |-> Null])])

\* a test that looks at the first item only
hasReplyFirstOnly(result) ==
  Concat(result) # <<>> /\ Truthy(Get(Concat(result)[1], "to"))

\* _.size(_.compact(_.map([].concat(result), 'to'))) > 0
hasReply(result) ==
  \E n \in DOMAIN Concat(result) : Truthy(Get(Concat(result)[n], "to"))

\* a reply that keeps error: null next to the messages
ReceiveReplyKeepsError(options, result) ==
  IF Truthy(options.reply) /\ hasReply(result)
    THEN Obj([payload |->
               Obj([success |-> Bool(TRUE), error |-> Null, task |-> Str(TASK_SEND),
                    messages |-> Arr(Concat(result))])])
    ELSE SuccessReply

ReceiveReply(options, result) ==
  IF Truthy(options.reply) /\ hasReply(result)
    THEN Obj([payload |->
               Obj([success |-> Bool(TRUE), task |-> Str(TASK_SEND),
                    messages |-> Arr(Concat(result))])])
    ELSE SuccessReply

OnReceiveDone(r) ==
  /\ pc[r] = "waiting"
  /\ Pending(r).handler = "onReceive"
  /\ \E c \in Completions :
       LET options == instances[Pending(r).inst]
       IN Finish(r, c,
            IF Truthy(c.error)
              THEN Fail(options, c.error, "Fail to process received message")
              ELSE Ok(ReceiveReply(options, c.result)))

\* a delivery callback that answers the way the receive callback does
OnDeliveredDoneAsReceive(r) ==
  /\ pc[r] = "waiting"
  /\ Pending(r).handler = "onDelivered"
  /\ \E c \in Completions :
       LET options == instances[Pending(r).inst]
       IN Finish(r, c,
            IF Truthy(c.error)
              THEN Fail(options, c.error, "Fail to process delivery reports")
              ELSE Ok(ReceiveReply(options, c.result)))

OnDeliveredDone(r) ==
  /\ pc[r] = "waiting"
  /\ Pending(r).handler = "onDelivered"
  /\ \E c \in Completions :
       LET options == instances[Pending(r).inst]
       IN Finish(r, c,
            IF Truthy(c.error)
              THEN Fail(options, c.error, "Fail to process delivery reports")
              ELSE Ok(SuccessReply))

\* a sent callback that branches on the error the way the others do
OnSentDoneChecksError(r) ==
  /\ pc[r] = "waiting"
  /\ Pending(r).handler = "onSent"
  /\ \E c \in Completions :
       LET options == instances[Pending(r).inst]
       IN Finish(r, c,
            IF Truthy(c.error)
              THEN Fail(options, c.error, "Fail to process delivery reports")
              ELSE Ok(Obj([queued_messages |-> Arr(Concat(c.result))])))

OnSentDone(r) ==
  /\ pc[r] = "waiting"
  /\ Pending(r).handler = "onSent"
  /\ \E c \in Completions :
       Finish(r, c, Ok(Obj([queued_messages |-> Arr(Concat(c.result))])))

OnQueuedDone(r) ==
  /\ pc[r] = "waiting"
  /\ Pending(r).handler = "onQueued"
  /\ \E c \in Completions :
       Finish(r, c, Ok(Obj([message_uuids |-> Arr(Concat(c.result))])))

\* a reply that carries the default secret instead of the configured one
SendReplyDefaultSecret(options, result) ==
  Obj([payload |->
        Obj([task |-> Str(TASK_SEND), secret |-> DefaultOptions.secret,
             messages |-> Arr(Concat(result))])])

SendReply(options, result) ==
  Obj([payload |->
        Obj([task |-> Str(TASK_SEND), secret |-> options.secret,
             messages |-> Arr(Concat(result))])])

\* a send callback that uses the receive callback's default message
OnSendDoneReceiveDefault(r) ==
  /\ pc[r] = "waiting"
  /\ Pending(r).handler = "onSend"
  /\ \E c \in Completions :
       LET options == instances[Pending(r).inst]
       IN Finish(r, c,
            IF Truthy(c.error)
              THEN Fail(options, c.error, "Fail to process received message")
              ELSE Ok(SendReply(options, c.result)))

OnSendDone(r) ==
  /\ pc[r] = "waiting"
  /\ Pending(r).handler = "onSend"
  /\ \E c \in Completions :
       LET options == instances[Pending(r).inst]
       IN Finish(r, c,
            IF Truthy(c.error)
              THEN Fail(options, c.error, "Fail to obtain message to send")
              ELSE Ok(SendReply(options, c.result)))

\* the response is on the wire (or the error handed on): the request's
\* values are dropped
Discard(r) ==
  /\ pc[r] = "done"
  /\ request' = [request EXCEPT ![r] = NoRequest]
  /\ pc' = [pc EXCEPT ![r] = "idle"]
  /\ pos' = [pos EXCEPT ![r] = 1]
  /\ admitted' = [admitted EXCEPT ![r] = FALSE]
  /\ calls' = [calls EXCEPT ![r] = <<>>]
  /\ completed' = [completed EXCEPT ![r] = NoCompletion]
  /\ outcomes' = [outcomes EXCEPT ![r] = <<>>]
  /\ UNCHANGED <<instances, stack>>

(***************************************************************************)
(* Specifications                                                          *)
(***************************************************************************)
Step(r) ==
  \/ SecretMiddleware(r)
  \/ PostRoute(r)
  \/ GetRoute(r)
  \/ PassOn(r)
  \/ OnReceiveDone(r)
  \/ OnDeliveredDone(r)
  \/ OnSentDone(r)
  \/ OnQueuedDone(r)
  \/ OnSendDone(r)
  \/ Discard(r)

\* one request at a time
Next ==
  \/ \E rq \in Requests : Arrive("r1", rq)
  \/ Step("r1")

Spec == Init /\ [][Next]_vars

\* two requests in flight, their steps interleaved
InitPair == Constructed(PairOptns)

NextPair ==
  \E r \in Reqs :
    \/ \E rq \in PairRequests : Arrive(r, rq)
    \/ Step(r)

SpecPair == InitPair /\ [][NextPair]_vars

\* two smssync() calls: both add their layers to the module's one router,
\* which both calls return
MultiOptns ==
  {[endpoint |-> Undefined, secret |-> Undefined, reply |-> Undefined, error |-> Undefined],
   [endpoint |-> Str("other"), secret |-> Str("s3cret"),
    reply |-> Bool(FALSE), error |-> Bool(FALSE)]}

InitMulti ==
  /\ \E o1, o2 \in MultiOptns :
       /\ instances = <<MergeOptions(o1), MergeOptions(o2)>>
       /\ stack = Layers(1, MergeOptions(o1)) \o Layers(2, MergeOptions(o2))
  /\ request = [r \in Reqs |-> NoRequest]
  /\ pc = [r \in Reqs |-> "idle"]
  /\ pos = [r \in Reqs |-> 1]
  /\ admitted = [r \in Reqs |-> FALSE]
  /\ calls = [r \in Reqs |-> <<>>]
  /\ completed = [r \in Reqs |-> NoCompletion]
  /\ outcomes = [r \in Reqs |-> <<>>]

SpecMulti == InitMulti /\ [][Next]_vars

\* one request at a time, where every step that can be taken for the request
\* is taken: the middleware and the routes are synchronous code that express
\* runs as soon as the request arrives, and every invoked handler calls its
\* callback
SpecLive == Init /\ [][Next]_vars /\ WF_vars(Step("r1"))

(***************************************************************************)
(* Vocabulary of the properties, read off the request and the              *)
(* configuration alone                                                     *)
(***************************************************************************)
Config == instances[1]

\* the configured secret is a non-empty string: authentication is on
SecretSet == Config.secret.t = "string" /\ Config.secret.s # ""

InlineErrors == Config.error = Bool(TRUE)

\* the secret a request supplies: the query's when it carries a non-empty
\* one, the body's otherwise
Supplied(r) ==
  LET q == request[r].query.f
      b == request[r].body.f
  IN IF "secret" \in DOMAIN q /\ q["secret"] # Str("") THEN q["secret"]
     ELSE IF "secret" \in DOMAIN b THEN b["secret"]
     ELSE Undefined

TaskOf(r) ==
  IF "task" \in DOMAIN request[r].query.f THEN request[r].query.f["task"].s ELSE ""

\* a POST with task=sent or task=result
ExemptPost(r) == request[r].method = "POST" /\ TaskOf(r) \in {"sent", "result"}

\* the request is addressed to the configured endpoint
ToEndpoint(r) == Str(request[r].path) = Config.endpoint

\* the secret middleware has taken its decision on the request
Decided(r) == pc[r] \in {"waiting", "done"} \/ (pc[r] = "routing" /\ admitted[r])

\* a route handler has taken the request
Routed(r) == pc[r] \in {"waiting", "done"} /\ calls[r] # <<>>

MismatchEnvelope ==
  Obj([payload |->
        Obj([success |-> Bool(FALSE), error |-> Str("Secret Key Mismatch")])])

MismatchResponse == [kind |-> "response", status |-> 200, body |-> MismatchEnvelope]

MismatchForwarded ==
  [kind |-> "error", error |-> Obj([message |-> Str("Secret Key Mismatch")])]

\* the request was turned down by the secret middleware
Rejected(r) ==
  /\ pc[r] = "done"
  /\ ~admitted[r]
  /\ calls[r] = <<>>
  /\ outcomes[r] = <<IF InlineErrors THEN MismatchResponse ELSE MismatchForwarded>>

(***************************************************************************)
(* Authentication                                                          *)
(***************************************************************************)
\* C1: with a non-empty configured secret and inline errors, a request (any
\* method, task, path or body) whose supplied secret differs from the
\* configured one and that is not a POST with task sent/result is answered
\* with exactly {payload:{success:false,error:"Secret Key Mismatch"}} and
\* status 200, and no handler runs.
C1_MismatchIsRendered ==
  \A r \in Reqs :
    (/\ SecretSet /\ InlineErrors
     /\ Decided(r)
     /\ Supplied(r) # Config.secret
     /\ ~ExemptPost(r))
    => /\ outcomes[r] = <<MismatchResponse>>
       /\ calls[r] = <<>>

C1_Witness ==
  \E r \in Reqs :
    /\ SecretSet /\ InlineErrors /\ pc[r] = "done"
    /\ request[r].method = "POST" /\ TaskOf(r) = "send"
    /\ request[r].path = "other"
    /\ Supplied(r) = Str("s3cret") /\ Config.secret = Str("smssync")
    /\ outcomes[r] = <<MismatchResponse>>

\* C2: with a non-empty configured secret a request is admitted exactly when
\* its supplied secret equals the configured one or it is a POST with task
\* sent/result; such a POST with a missing or wrong secret reaches onSent /
\* onDelivered.
C2_AdmittedIff ==
  \A r \in Reqs :
    (SecretSet /\ Decided(r)) =>
      /\ admitted[r] <=> (Supplied(r) = Config.secret \/ ExemptPost(r))
      /\ ~admitted[r] => Rejected(r)
      /\ (ExemptPost(r) /\ ToEndpoint(r) /\ pc[r] \in {"waiting", "done"}) =>
            /\ Len(calls[r]) = 1
            /\ calls[r][1].handler =
                  (IF TaskOf(r) = "sent" THEN "onSent" ELSE "onDelivered")

C2_Witness ==
  \E r \in Reqs :
    /\ SecretSet /\ pc[r] = "waiting" /\ admitted[r]
    /\ ExemptPost(r) /\ TaskOf(r) = "result"
    /\ Supplied(r) \notin {Config.secret}
    /\ calls[r][1].handler = "onDelivered"

\* C3: the exemption never applies to GET: with a non-empty configured
\* secret, a GET with task=result or task=sent and a missing or wrong secret
\* is rejected with the Secret Key Mismatch failure and neither onQueued nor
\* onSend runs.
C3_GetNeverExempt ==
  \A r \in Reqs :
    (/\ SecretSet
     /\ pc[r] # "idle"
     /\ request[r].method = "GET"
     /\ TaskOf(r) \in {"sent", "result"}
     /\ Supplied(r) # Config.secret)
    => /\ ~admitted[r]
       /\ calls[r] = <<>>
       /\ pc[r] \notin {"waiting"}
       /\ pc[r] = "done" => Rejected(r)

C3_Witness ==
  \E r \in Reqs :
    /\ SecretSet /\ ~InlineErrors
    /\ request[r].method = "GET" /\ TaskOf(r) = "result" /\ ToEndpoint(r)
    /\ Supplied(r) = Undefined
    /\ Rejected(r)

\* the handler the classification table names for (method, task)
TableHandler(r) ==
  IF request[r].method = "POST"
    THEN (IF TaskOf(r) = "sent" THEN "onSent"
          ELSE IF TaskOf(r) = "result" THEN "onDelivered"
          ELSE "onReceive")
    ELSE (IF TaskOf(r) = "result" THEN "onQueued" ELSE "onSend")

\* C4: when the configured secret is empty or unset (null), no request is
\* rejected whatever secret it supplies, and every request to the endpoint is
\* dispatched to the handler of its task.
C4_NoSecretAdmitsAll ==
  \A r \in Reqs :
    (Config.secret \in {Null, Str("")}) =>
      /\ \A n \in DOMAIN outcomes[r] :
            outcomes[r][n] \notin {MismatchResponse, MismatchForwarded}
      /\ (ToEndpoint(r) /\ pc[r] = "done") => Routed(r)
      /\ (ToEndpoint(r) /\ pc[r] \in {"waiting", "done"}) =>
            /\ Len(calls[r]) = 1
            /\ calls[r][1].handler = TableHandler(r)

C4_Witness ==
  \E r \in Reqs :
    /\ Config.secret = Str("")
    /\ Supplied(r) = Str("s3cret")
    /\ request[r].method = "GET" /\ ToEndpoint(r)
    /\ pc[r] = "waiting" /\ calls[r][1].handler = "onSend"

\* the secret a request supplies if any secret parameter in the query, even an
\* empty one, takes precedence over the body's
SuppliedQueryFirst(r) ==
  LET q == request[r].query.f
      b == request[r].body.f
  IN IF "secret" \in DOMAIN q THEN q["secret"]
     ELSE IF "secret" \in DOMAIN b THEN b["secret"]
     ELSE Undefined

\* C5 as stated: the secret compared is the query's whenever the query
\* carries one, and the body's only when the query carries none.
C5_QueryWheneverPresent ==
  \A r \in Reqs :
    (SecretSet /\ Decided(r) /\ ~ExemptPost(r)) =>
      (admitted[r] <=> SuppliedQueryFirst(r) = Config.secret)

\* C5, amended: the secret compared is the query's when the query carries a
\* non-empty one, and the body's when the query carries none or an empty one:
\* a non-empty wrong query secret is rejected even if the body's is correct,
\* and a correct body secret is admitted when the query has no secret or an
\* empty one.
C5_QueryThenBody ==
  \A r \in Reqs :
    LET q == request[r].query.f
        b == request[r].body.f
        inQuery == "secret" \in DOMAIN q /\ q["secret"] # Str("")
    IN (SecretSet /\ Decided(r) /\ ~ExemptPost(r)) =>
         /\ inQuery => (admitted[r] <=> q["secret"] = Config.secret)
         /\ ~inQuery =>
              (admitted[r] <=> ("secret" \in DOMAIN b /\ b["secret"] = Config.secret))

C5_Witness ==
  \E r \in Reqs :
    /\ SecretSet
    /\ "secret" \in DOMAIN request[r].query.f
    /\ request[r].query.f["secret"] = Str("s3cret")
    /\ "secret" \in DOMAIN request[r].body.f
    /\ request[r].body.f["secret"] = Str("smssync")
    /\ Config.secret = Str("smssync")
    /\ ~ExemptPost(r)
    /\ Rejected(r)

(***************************************************************************)
(* Classification and dispatch                                             *)
(***************************************************************************)
\* C6: the task of a dispatched request follows from (method, task) alone:
\* POST+sent -> onSent, POST+result -> onDelivered, POST+other/absent ->
\* onReceive, GET+result -> onQueued, GET+other/absent -> onSend.
C6_Classification ==
  \A r \in Reqs :
    Routed(r) =>
      calls[r][1].handler =
        (CASE request[r].method = "POST" /\ TaskOf(r) = "sent" -> "onSent"
           [] request[r].method = "POST" /\ TaskOf(r) = "result" -> "onDelivered"
           [] request[r].method = "POST" /\ TaskOf(r) \notin {"sent", "result"} -> "onReceive"
           [] request[r].method = "GET" /\ TaskOf(r) = "result" -> "onQueued"
           [] request[r].method = "GET" /\ TaskOf(r) # "result" -> "onSend")

C6_Witness ==
  \E r \in Reqs :
    /\ request[r].method = "GET" /\ TaskOf(r) = "sent"
    /\ pc[r] = "done" /\ Routed(r) /\ calls[r][1].handler = "onSend"

Handlers == {"onReceive", "onSend", "onSent", "onQueued", "onDelivered"}

\* C7: an admitted request to the endpoint has exactly one handler invocation,
\* of one of the five handlers; no request ever has two, and a failed
\* invocation is not repeated.
C7_OneHandlerOnce ==
  \A r \in Reqs :
    /\ Len(calls[r]) <= 1
    /\ (ToEndpoint(r) /\ pc[r] \in {"waiting", "done"} /\ (admitted[r] \/ ~SecretSet)) =>
          /\ Len(calls[r]) = 1
          /\ calls[r][1].handler \in Handlers
    /\ (pc[r] = "done" /\ completed[r].error.t = "object") => Len(calls[r]) = 1

C7_Witness ==
  \E r \in Reqs :
    /\ pc[r] = "done" /\ admitted[r]
    /\ calls[r] # <<>> /\ calls[r][1].handler = "onReceive"
    /\ completed[r].error = Error("boom")
    /\ Len(calls[r]) = 1

(***************************************************************************)
(* Normalisation of a received message                                     *)
(***************************************************************************)
SixFields ==
  {"from", "message", "message_id", "sent_to", "device_id", "sent_timestamp"}

\* C8: the message given to onReceive has exactly the body's fields among
\* the six message fields, with the body's values, plus a hash; every other
\* body field (secret, a body-supplied hash) is dropped and no missing field
\* is filled in.
C8_Projection ==
  \A r \in Reqs :
    (Routed(r) /\ calls[r][1].handler = "onReceive") =>
      LET b == request[r].body.f
          m == calls[r][1].args[1]
      IN /\ Len(calls[r][1].args) = 1
         /\ m.t = "object"
         /\ DOMAIN m.f = (DOMAIN b \cap SixFields) \cup {"hash"}
         /\ \A k \in DOMAIN b \cap SixFields : m.f[k] = b[k]
         /\ "hash" \in DOMAIN b => m.f["hash"] # b["hash"]

C8_Witness ==
  \E r \in Reqs :
    /\ Routed(r) /\ calls[r][1].handler = "onReceive"
    /\ DOMAIN request[r].body.f = {"from", "message", "secret", "hash"}
    /\ DOMAIN calls[r][1].args[1].f = {"from", "message", "hash"}

\* the body's message fields: its restriction to the six
MessagePart(r) ==
  [k \in DOMAIN request[r].body.f \cap SixFields |-> request[r].body.f[k]]

Received(r) == Routed(r) /\ calls[r][1].handler = "onReceive"

\* C9: two received bodies that agree on the six message fields and differ
\* only elsewhere (secret, hash, the query) give onReceive the same hash.
C9_HashOfSixFieldsOnly ==
  \A r1, r2 \in Reqs :
    (Received(r1) /\ Received(r2) /\ MessagePart(r1) = MessagePart(r2)) =>
      calls[r1][1].args[1].f["hash"] = calls[r2][1].args[1].f["hash"]

C9_Witness ==
  \E r1, r2 \in Reqs :
    /\ Received(r1) /\ Received(r2)
    /\ MessagePart(r1) = MessagePart(r2)
    /\ "secret" \in DOMAIN request[r1].body.f
    /\ "secret" \notin DOMAIN request[r2].body.f
    /\ calls[r1][1].args[1].f["hash"] = calls[r2][1].args[1].f["hash"]

(***************************************************************************)
(* Responses                                                               *)
(***************************************************************************)
PlainSuccess == Obj([payload |-> Obj([success |-> Bool(TRUE), error |-> Null])])

\* the handler result, flattened, has an item with a non-empty 'to'
HasTo(res) ==
  LET items == IF res.t = "array" THEN res.a ELSE <<res>>
  IN \E n \in DOMAIN items :
       /\ items[n].t = "object"
       /\ "to" \in DOMAIN items[n].f
       /\ items[n].f["to"] \notin {Str(""), Null, Undefined}

\* C10: a successful onReceive is answered with the reply variant
\* (payload.task = 'send' with payload.messages) exactly when the reply option
\* is on and some item of the flattened result has a non-empty 'to'; every
\* other success is answered with exactly {payload:{success:true,error:null}}.
C10_ReplyVariantIff ==
  \A r \in Reqs :
    (/\ pc[r] = "done" /\ Received(r)
     /\ completed[r].error \in {Undefined, Null}) =>
      /\ Len(outcomes[r]) = 1
      /\ outcomes[r][1].kind = "response"
      /\ LET payload == outcomes[r][1].body.f["payload"].f
         IN IF Config.reply = Bool(TRUE) /\ HasTo(completed[r].result)
              THEN /\ "task" \in DOMAIN payload /\ payload["task"] = Str("send")
                   /\ "messages" \in DOMAIN payload
              ELSE outcomes[r][1].body = PlainSuccess

C10_Witness ==
  \E r \in Reqs :
    /\ pc[r] = "done" /\ Received(r)
    /\ completed[r] = [error |-> Null, result |-> Arr(<<EmptyTo, ReplyTo>>)]
    /\ Config.reply = Bool(TRUE)
    /\ outcomes[r][1].body.f["payload"].f["task"] = Str("send")

\* the request's handler has completed and the router has answered
Answered(r, handler) ==
  /\ pc[r] = "done" /\ Routed(r)
  /\ calls[r][1].handler = handler
  /\ outcomes[r] # <<>>

\* the handler completed without an error
Succeeded(r) == completed[r].error \in {Undefined, Null}

\* the items of a handler result that is an array or a single value
ItemsOf(res) == IF res.t = "array" THEN res.a ELSE <<res>>

\* C11: in the reply variant the payload is exactly success=true,
\* task='send' and messages = every item of the flattened handler result in
\* order (items without a 'to' included); it has no 'error' key.
C11_ReplyPayload ==
  \A r \in Reqs :
    (/\ Answered(r, "onReceive") /\ Succeeded(r)
     /\ Config.reply = Bool(TRUE) /\ HasTo(completed[r].result)) =>
      LET payload == outcomes[r][1].body.f["payload"].f
      IN /\ outcomes[r][1].kind = "response"
         /\ DOMAIN outcomes[r][1].body.f = {"payload"}
         /\ DOMAIN payload = {"success", "task", "messages"}
         /\ "error" \notin DOMAIN payload
         /\ payload["success"] = Bool(TRUE)
         /\ payload["task"] = Str("send")
         /\ payload["messages"] = Arr(ItemsOf(completed[r].result))

C11_Witness ==
  \E r \in Reqs :
    /\ Answered(r, "onReceive") /\ Succeeded(r)
    /\ Config.reply = Bool(TRUE)
    /\ completed[r].result = Arr(<<ReplyTo, Str("u1")>>)
    /\ outcomes[r][1].body.f["payload"].f["messages"] = Arr(<<ReplyTo, Str("u1")>>)

C19_DeliverySuccess ==
  \A r \in Reqs :
    (Answered(r, "onDelivered") /\ Succeeded(r)) =>
      outcomes[r] =
        <<[kind |-> "response", status |-> 200,
           body |-> Obj([payload |-> Obj([success |-> Bool(TRUE), error |-> Null])])]>>

C19_Witness ==
  \E r \in Reqs :
    /\ Answered(r, "onDelivered") /\ Succeeded(r)
    /\ Config.reply = Bool(TRUE)
    /\ completed[r].result = ReplyTo
    /\ outcomes[r][1].body = PlainSuccess

\* the handler completed with an error
Failed(r) == ~Succeeded(r) /\ Truthy(completed[r].error)

\* the message a failure carries, "" when it carries none
MessageOf(error) ==
  IF error.t = "object" /\ "message" \in DOMAIN error.f /\ error.f["message"].t = "string"
    THEN error.f["message"].s
    ELSE ""

DefaultMessage(handler) ==
  CASE handler = "onReceive" -> "Fail to process received message"
    [] handler = "onDelivered" -> "Fail to process delivery reports"
    [] handler = "onSend" -> "Fail to obtain message to send"

\* C20: a rendered failure of onReceive, onDelivered or onSend carries the
\* failure's message when it has one and the task's default when it has none;
\* a rendered authentication failure always carries 'Secret Key Mismatch'.
C20_FailureMessages ==
  \A r \in Reqs :
    /\ \A h \in {"onReceive", "onDelivered", "onSend"} :
         (InlineErrors /\ Answered(r, h) /\ Failed(r)) =>
           /\ outcomes[r][1].kind = "response"
           /\ outcomes[r][1].body.f["payload"].f["error"] =
                 (IF MessageOf(completed[r].error) # ""
                    THEN Str(MessageOf(completed[r].error))
                    ELSE Str(DefaultMessage(h)))
    /\ (InlineErrors /\ SecretSet /\ pc[r] = "done" /\ ~admitted[r]) =>
         /\ outcomes[r][1].kind = "response"
         /\ outcomes[r][1].body.f["payload"].f["error"] = Str("Secret Key Mismatch")

C20_Witness ==
  \E r \in Reqs :
    /\ InlineErrors /\ Answered(r, "onSend")
    /\ completed[r].error = Error("")
    /\ outcomes[r][1].body.f["payload"].f["error"] = Str("Fail to obtain message to send")

(***************************************************************************)
(* Failures                                                                *)
(***************************************************************************)
\* the secret middleware turned the request down
AuthFailed(r) == SecretSet /\ pc[r] = "done" /\ ~admitted[r]

\* {payload:{success:false,error:<a message>}} sent with status 200
FailureEnvelope(o) ==
  /\ o.kind = "response"
  /\ o.status = 200
  /\ DOMAIN o.body.f = {"payload"}
  /\ DOMAIN o.body.f["payload"].f = {"success", "error"}
  /\ o.body.f["payload"].f["success"] = Bool(FALSE)
  /\ o.body.f["payload"].f["error"].t = "string"
  /\ o.body.f["payload"].f["error"].s # ""

\* C13 as stated: with inline errors, a failure of any of the five handlers
\* and any authentication failure is answered with
\* {payload:{success:false,error:<message>}} and status 200.
C13_EveryFailureRendered ==
  \A r \in Reqs :
    (InlineErrors /\ (AuthFailed(r) \/ (pc[r] = "done" /\ Routed(r) /\ Failed(r)))) =>
      /\ Len(outcomes[r]) = 1
      /\ FailureEnvelope(outcomes[r][1])

\* C13, amended: with inline errors, a failure of onReceive, onSend or
\* onDelivered and any authentication failure is answered with
\* {payload:{success:false,error:<message>}} and status 200; a failure of
\* onSent or onQueued is not: it is answered with the list envelope.
C13_FailureRendered ==
  \A r \in Reqs :
    /\ (InlineErrors /\
          (\/ AuthFailed(r)
           \/ /\ Failed(r)
              /\ \/ Answered(r, "onReceive")
                 \/ Answered(r, "onSend")
                 \/ Answered(r, "onDelivered"))) =>
         /\ Len(outcomes[r]) = 1
         /\ FailureEnvelope(outcomes[r][1])
    /\ (Failed(r) /\ (Answered(r, "onSent") \/ Answered(r, "onQueued"))) =>
         /\ Len(outcomes[r]) = 1
         /\ outcomes[r][1].kind = "response"
         /\ "payload" \notin DOMAIN outcomes[r][1].body.f

C13_Witness ==
  \E r \in Reqs :
    /\ InlineErrors /\ Answered(r, "onDelivered")
    /\ completed[r].error = Error("boom")
    /\ FailureEnvelope(outcomes[r][1])

\* C14: with inline errors off, an authentication failure and a failure of
\* onReceive, onSend or onDelivered is handed to next(error) exactly once and
\* no response is rendered; with inline errors on nothing is ever handed to
\* next(error): the routing follows the flag, not the kind of error.
C14_FailureForwarded ==
  \A r \in Reqs :
    /\ (~InlineErrors /\ AuthFailed(r)) => outcomes[r] = <<MismatchForwarded>>
    /\ (~InlineErrors /\ Failed(r) /\
          (\/ Answered(r, "onReceive")
           \/ Answered(r, "onSend")
           \/ Answered(r, "onDelivered"))) =>
         outcomes[r] = <<[kind |-> "error", error |-> completed[r].error]>>
    /\ InlineErrors => \A n \in DOMAIN outcomes[r] : outcomes[r][n].kind # "error"

C14_Witness ==
  \E r \in Reqs :
    /\ ~InlineErrors /\ Answered(r, "onSend")
    /\ completed[r].error = Str("failed")
    /\ outcomes[r] = <<[kind |-> "error", error |-> Str("failed")]>>

\* a response with status 200 whose body is {key: <an array>}, the array
\* holding the result's items when there is a result
ListEnvelope(o, key, res) ==
  /\ o.kind = "response"
  /\ o.status = 200
  /\ DOMAIN o.body.f = {key}
  /\ o.body.f[key].t = "array"
  /\ res \notin {Undefined, Null} => o.body.f[key] = Arr(ItemsOf(res))

Flattened(res) ==
  IF res.t = "array" THEN res.a
  ELSE IF res \in {Undefined, Null} THEN <<>>
  ELSE <<res>>

\* the sequence a rendered envelope carries, if it carries one
Carried(r) ==
  LET b == outcomes[r][1].body.f
  IN IF "queued_messages" \in DOMAIN b THEN <<b["queued_messages"]>>
     ELSE IF "message_uuids" \in DOMAIN b THEN <<b["message_uuids"]>>
     ELSE IF "messages" \in DOMAIN b["payload"].f THEN <<b["payload"].f["messages"]>>
     ELSE <<>>

Rendered(r) ==
  pc[r] = "done" /\ Routed(r) /\ outcomes[r] # <<>> /\ outcomes[r][1].kind = "response"

\* C16: every sequence in an envelope is the flattening of the handler
\* result: a bare value as one element, a sequence unchanged, an absent or
\* null result as the empty sequence.
C16_SequencesAreFlattened ==
  \A r \in Reqs :
    Rendered(r) =>
      \A n \in DOMAIN Carried(r) :
        Carried(r)[n] = Arr(Flattened(completed[r].result))

\* C17: no envelope holds an undefined marker, nor a null other than
\* payload.error = null of a success envelope; no sequence in it holds an
\* undefined or null element the handler did not return.
C17_NoUndefinedNoNull ==
  \A r \in Reqs :
    Rendered(r) =>
      LET b == outcomes[r][1].body.f
          returned == {ItemsOf(completed[r].result)[n] :
                         n \in (IF completed[r].result.t = "array"
                                  THEN DOMAIN completed[r].result.a ELSE {})}
      IN /\ \A k \in DOMAIN b : b[k] \notin {Undefined, Null}
         /\ "payload" \in DOMAIN b =>
              \A k \in DOMAIN b["payload"].f :
                /\ b["payload"].f[k] # Undefined
                /\ b["payload"].f[k] = Null =>
                     (k = "error" /\ b["payload"].f["success"] = Bool(TRUE))
         /\ \A n \in DOMAIN Carried(r) :
              \A m \in DOMAIN Carried(r)[n].a :
                Carried(r)[n].a[m] \in {Undefined, Null} =>
                  Carried(r)[n].a[m] \in returned

(***************************************************************************)
(* Several instances                                                       *)
(***************************************************************************)
\* instance i is the only one configured for the path of the request
ServedBy(r, i) ==
  /\ Str(request[r].path) = instances[i].endpoint
  /\ \A j \in DOMAIN instances : j # i => instances[j].endpoint # instances[i].endpoint

\* the request passes the authentication of instance i taken alone
PassesAuthOf(r, i) ==
  \/ ~(instances[i].secret.t = "string" /\ instances[i].secret.s # "")
  \/ Supplied(r) = instances[i].secret
  \/ ExemptPost(r)

\* C18: instances with different configurations do not interfere: a request
\* to the endpoint of one instance is authenticated against that instance's
\* secret only, dispatched to that instance's handlers only, and a rejection
\* is rendered under that instance's inline-errors setting.
C18_InstancesIndependent ==
  \A r \in Reqs : \A i \in DOMAIN instances :
    (pc[r] = "done" /\ ServedBy(r, i)) =>
      /\ PassesAuthOf(r, i) => (Routed(r) /\ calls[r][1].inst = i)
      /\ ~PassesAuthOf(r, i) =>
           /\ calls[r] = <<>>
           /\ outcomes[r] =
                <<IF instances[i].error = Bool(TRUE)
                    THEN MismatchResponse ELSE MismatchForwarded>>

(***************************************************************************)
(* Status codes                                                            *)
(***************************************************************************)
\* C21: every response the router sends, for every task and every outcome
\* (a success, a handler failure rendered inline, an authentication failure
\* rendered inline, a list envelope), has status 200.
C21_AlwaysStatus200 ==
  \A r \in Reqs : \A n \in DOMAIN outcomes[r] :
    outcomes[r][n].kind = "response" => outcomes[r][n].status = 200

C21_Witness ==
  \E r \in Reqs :
    /\ InlineErrors /\ Answered(r, "onReceive") /\ Failed(r)
    /\ outcomes[r][1].kind = "response"
    /\ outcomes[r][1].status = 200

(***************************************************************************)
(* Acknowledgements and delivery reports                                   *)
(***************************************************************************)
\* the value of a body field, undefined when the body has none
Field(r, k) ==
  IF k \in DOMAIN request[r].body.f THEN request[r].body.f[k] ELSE Undefined

\* C22: onSent is invoked once with the body's queued_messages value and
\* nothing else, onDelivered once with the body's message_result value and
\* nothing else; the response to a task=sent request is
\* {queued_messages:<the flattening of the onSent result>}, so that a handler
\* that echoes its input is answered with the request's queued_messages (an
\* absent one as the empty sequence).
C22_SentAckEchoes ==
  \A r \in Reqs :
    /\ (Routed(r) /\ calls[r][1].handler = "onSent") =>
         /\ Len(calls[r]) = 1
         /\ calls[r][1].args = <<Field(r, "queued_messages")>>
    /\ (Routed(r) /\ calls[r][1].handler = "onDelivered") =>
         /\ Len(calls[r]) = 1
         /\ calls[r][1].args = <<Field(r, "message_result")>>
    /\ Answered(r, "onSent") =>
         /\ Len(outcomes[r]) = 1
         /\ outcomes[r][1].kind = "response"
         /\ outcomes[r][1].body =
              Obj([queued_messages |-> Arr(Flattened(completed[r].result))])
         /\ completed[r].result = calls[r][1].args[1] =>
              outcomes[r][1].body =
                Obj([queued_messages |-> Arr(Flattened(Field(r, "queued_messages")))])

(***************************************************************************)
(* Requests in flight together                                             *)
(***************************************************************************)
\* everything the router holds about one request
Slot(r) ==
  <<request[r], pc[r], pos[r], admitted[r], calls[r], completed[r], outcomes[r]>>

\* a POST to the endpoint with no task or a task other than sent and result
ReceiveMessage(r) ==
  request[r].method = "POST" /\ ToEndpoint(r) /\ TaskOf(r) \notin {"sent", "result"}

\* C23: requests in flight together are independent. Every step (an arrival,
\* a routing step, a handler completion, in any interleaving) touches one
\* request only and leaves the configuration alone; two requests with the
\* same method, path, query and body whose handlers complete alike have the
\* same invocation and the same outcome, whatever else happened in between;
\* and each of several identical message requests is handed to onReceive.
C23_RequestsIndependent ==
  /\ [][\A r \in Reqs :
          Slot(r)' # Slot(r) =>
            /\ instances' = instances /\ stack' = stack
            /\ \A q \in Reqs \ {r} : Slot(q)' = Slot(q)]_vars
  /\ [](\A r, q \in Reqs :
          (pc[r] = "done" /\ pc[q] = "done" /\ request[r] = request[q]
             /\ completed[r] = completed[q]) =>
            (calls[r] = calls[q] /\ outcomes[r] = outcomes[q]))
  /\ [](\A r \in Reqs :
          (pc[r] \in {"waiting", "done"} /\ admitted[r] /\ ReceiveMessage(r)) =>
            (Len(calls[r]) = 1 /\ calls[r][1].handler = "onReceive"))

C23_Witness ==
  \E r, q \in Reqs :
    /\ r # q /\ request[r] = request[q]
    /\ Answered(r, "onReceive") /\ Answered(q, "onReceive")
    /\ calls[r] = calls[q]
    /\ completed[r] # completed[q]
    /\ outcomes[r] # outcomes[q]

(***************************************************************************)
(* The configuration                                                       *)
(***************************************************************************)
\* C24: the configuration is fixed at construction. No step (the secret
\* check, the classification, the dispatch, a completion and its response)
\* changes endpoint, secret, reply or error of the options, nor the layers
\* of the router; and while a request is with the router, the secret check
\* included, its method, path, query and body are left as they arrived.
C24_ConfigurationFixed ==
  [][/\ instances' = instances
     /\ stack' = stack
     /\ \A r \in Reqs :
          (pc[r] # "idle" /\ pc'[r] # "idle") => request'[r] = request[r]]_vars

C24_Witness ==
  \E r \in Reqs :
    /\ Config = MergeOptions([endpoint |-> Undefined, secret |-> Str("s3cret"),
                              reply |-> Bool(FALSE), error |-> Bool(FALSE)])
    /\ Answered(r, "onDelivered")
    /\ ExemptPost(r) /\ Supplied(r) = Str("smssync")
    /\ request[r].body.f["secret"] = Str("smssync")

(***************************************************************************)
(* Outcomes and handler completions                                        *)
(***************************************************************************)
\* C25: a request whose handler was invoked has no outcome (no response, no
\* error given to next) as long as the handler has not completed, however
\* long that lasts and whatever the other requests do; its outcome appears in
\* the step in which the handler completes, and in no other.
C25_NoOutcomeBeforeCompletion ==
  /\ [](\A r \in Reqs : pc[r] = "waiting" => outcomes[r] = <<>>)
  /\ [][\A r \in Reqs :
          (calls[r] # <<>> /\ pc[r] # "done" /\ outcomes'[r] # outcomes[r]) =>
            /\ pc[r] = "waiting" /\ pc'[r] = "done"
            /\ completed'[r] \in Completions
            /\ calls'[r] = calls[r]]_vars

C25_Witness ==
  \E r, q \in Reqs :
    /\ pc[r] = "waiting" /\ admitted[r] /\ Pending(r).handler = "onReceive"
    /\ outcomes[r] = <<>>
    /\ Answered(q, "onSend")

C27_HandlerOnlyIfAdmitted ==
  /\ [](\A r \in Reqs :
          SecretSet =>
            /\ calls[r] # <<>> => admitted[r]
            /\ AuthFailed(r) =>
                 /\ calls[r] = <<>>
                 /\ outcomes[r] =
                      <<IF InlineErrors THEN MismatchResponse ELSE MismatchForwarded>>)
  /\ [][\A r \in Reqs :
          AuthFailed(r) => (calls'[r] = <<>> /\ pc'[r] \in {"done", "idle"})]_vars

C27_Witness ==
  \E r \in Reqs :
    /\ SecretSet /\ InlineErrors
    /\ ReceiveMessage(r) /\ Supplied(r) = Str("smssync") /\ Config.secret = Str("s3cret")
    /\ AuthFailed(r)
    /\ calls[r] = <<>>
    /\ outcomes[r] = <<MismatchResponse>>

(***************************************************************************)
(* One outcome                                                             *)
(***************************************************************************)
\* C28: no request ever has two outcomes. A request whose handler was
\* invoked and has completed (once) has exactly one: a response or an error
\* given to next, never both; a request the secret middleware rejected has
\* exactly one as well.
C28_ExactlyOneOutcome ==
  \A r \in Reqs :
    /\ Len(outcomes[r]) <= 1
    /\ (pc[r] = "done" /\ (Routed(r) \/ AuthFailed(r))) =>
         /\ Len(outcomes[r]) = 1
         /\ outcomes[r][1].kind \in {"response", "error"}
         /\ Len(calls[r]) <= 1

C28_Witness ==
  \E r \in Reqs :
    /\ ~InlineErrors /\ Answered(r, "onReceive")
    /\ completed[r] = [error |-> Error("boom"), result |-> ReplyTo]
    /\ outcomes[r] = <<[kind |-> "error", error |-> Error("boom")]>>

(***************************************************************************)
(* Every request is answered                                               *)
(***************************************************************************)
\* the request has its one outcome, a response or an error given to next
Outcome(r) ==
  /\ pc[r] = "done"
  /\ Len(outcomes[r]) = 1
  /\ outcomes[r][1].kind \in {"response", "error"}

\* C29: when every invoked handler completes, every request that reaches the
\* router leaves it with one outcome, and a request to the endpoint (whether
\* rejected, or admitted, dispatched and completed, successfully or not, with
\* inline errors on or off) gets a response or an error given to next: no
\* path through the secret check, the route and the callback leaves it
\* unanswered.
C29_EveryRequestAnswered ==
  \A r \in Reqs :
    /\ (pc[r] = "routing") ~> (pc[r] = "done" /\ Len(outcomes[r]) = 1)
    /\ (pc[r] = "routing" /\ ToEndpoint(r)) ~> (ToEndpoint(r) /\ Outcome(r))

C29_Witness ==
  \E r \in Reqs :
    /\ ~InlineErrors /\ ToEndpoint(r) /\ Outcome(r)
    /\ Answered(r, "onDelivered") /\ Failed(r)
    /\ outcomes[r][1].kind = "error"

(***************************************************************************)
(* Disclosure of the secret                                                *)
(***************************************************************************)
\* the value s occurs in v: v itself, a property of it or an item of it
RECURSIVE Holds(_, _)
Holds(v, s) ==
  IF v.t = "object" THEN \E k \in DOMAIN v.f : Holds(v.f[k], s)
  ELSE IF v.t = "array" THEN \E n \in DOMAIN v.a : Holds(v.a[n], s)
  ELSE v = s

\* the outcome carries the configured secret
Discloses(o) ==
  \/ o.kind = "response" /\ Holds(o.body, Config.secret)
  \/ o.kind = "error" /\ Holds(o.error, Config.secret)

\* C30: with a non-empty configured secret, the only outcome that carries
\* the secret is the success response of onSend (in payload.secret), and the
\* request so answered supplied that very secret; neither the answer to a
\* rejected request nor the answer to a POST with task sent/result that did
\* not supply the secret carries it (the application's handlers being taken
\* not to return the secret themselves).
C30_SecretOnlyToAuthenticated ==
  \A r \in Reqs : \A n \in DOMAIN outcomes[r] :
    (SecretSet /\ pc[r] = "done") =>
      /\ Discloses(outcomes[r][n]) =>
           /\ Answered(r, "onSend")
           /\ ~Truthy(completed[r].error)
           /\ outcomes[r][n].kind = "response"
           /\ outcomes[r][n].body.f["payload"].f["secret"] = Config.secret
           /\ Supplied(r) = Config.secret
      /\ (AuthFailed(r) \/ (ExemptPost(r) /\ Supplied(r) # Config.secret)) =>
           ~Discloses(outcomes[r][n])

C30_Witness ==
  \E r \in Reqs :
    /\ Config.secret = Str("s3cret")
    /\ Answered(r, "onSend")
    /\ "secret" \notin DOMAIN request[r].query.f
    /\ Supplied(r) = Str("s3cret")
    /\ Discloses(outcomes[r][1])

(***************************************************************************)
(* Requests for other paths                                                *)
(***************************************************************************)
\* C31: the secret check is made for every request that reaches the router,
\* whatever its path. With a non-empty configured secret no request goes past
\* the first layer unadmitted, and a request to a path other than the
\* endpoint that does not supply the matching secret and is not a POST with
\* task sent/result gets the Secret Key Mismatch failure (rendered, or given
\* to next(error) when the error option is off): no handler is invoked and
\* the request is not passed on to the hosting application.
C31_CheckedOnEveryPath ==
  \A r \in Reqs :
    SecretSet =>
      /\ (pc[r] = "routing" /\ ~admitted[r]) => pos[r] = 1
      /\ (pc[r] = "done" /\ ~ToEndpoint(r)
            /\ Supplied(r) # Config.secret /\ ~ExemptPost(r)) =>
           /\ ~admitted[r]
           /\ calls[r] = <<>>
           /\ outcomes[r] =
                <<IF InlineErrors THEN MismatchResponse ELSE MismatchForwarded>>

C31_Witness ==
  \E r \in Reqs :
    /\ SecretSet /\ ~InlineErrors
    /\ request[r].path = "other" /\ ~ToEndpoint(r)
    /\ request[r].method = "POST" /\ TaskOf(r) = "send"
    /\ Supplied(r) = Str("smssync") /\ Config.secret = Str("s3cret")
    /\ pc[r] = "done"
    /\ outcomes[r] = <<MismatchForwarded>>
====
